---------------------------- MODULE Spec2Model ----------------------------
(***************************************************************************)
(* A model of py_heideltime's HeidelTime wrapper (src/python_heidelTime.py) *)
(* : configuration loading and validation, the setters, date parsing, and   *)
(* parse() with its temporary file, child process and cleanup.              *)
(*                                                                          *)
(* Python strings whose characters matter (dates, enumeration values,       *)
(* document text) are sequences of one-character strings; byte strings are  *)
(* sequences of integers 0..255.  Opaque strings (path components, locale   *)
(* and encoding names) are TLA+ strings.  None is a one-field record, and a *)
(* value that may be None is kept in a record too (a Path, or [str |-> s]). *)
(***************************************************************************)
EXTENDS Integers, Sequences, FiniteSets, TLC

VARIABLES obj, last, disk, thr

vars == <<obj, last, disk, thr>>

None == [none |-> TRUE]

(***************************************************************************)
(* Characters and str.lower()                                               *)
(***************************************************************************)
Digits == <<"0", "1", "2", "3", "4", "5", "6", "7", "8", "9">>

IsDigit(c) == \E i \in 1..Len(Digits) : Digits[i] = c

DigitVal(c) == (CHOOSE i \in 1..Len(Digits) : Digits[i] = c) - 1

UpperCase == <<"A", "B", "C", "D", "E", "F", "G", "H", "I", "J", "K", "L", "M",
               "N", "O", "P", "Q", "R", "S", "T", "U", "V", "W", "X", "Y", "Z">>

LowerCase == <<"a", "b", "c", "d", "e", "f", "g", "h", "i", "j", "k", "l", "m",
               "n", "o", "p", "q", "r", "s", "t", "u", "v", "w", "x", "y", "z">>

LowerChar(c) ==
    IF \E i \in 1..Len(UpperCase) : UpperCase[i] = c
    THEN LowerCase[CHOOSE i \in 1..Len(UpperCase) : UpperCase[i] = c]
    ELSE c

Lower(s) == [i \in 1..Len(s) |-> LowerChar(s[i])]

InList(x, list) == \E i \in 1..Len(list) : list[i] = x

(***************************************************************************)
(* The closed sets                                                          *)
(***************************************************************************)
AVAILABLE_LANGUAGES ==
    << <<"a","r","a","b","i","c">>,
       <<"c","h","i","n","e","s","e">>,
       <<"c","r","o","a","t","i","a","n">>,
       <<"d","u","t","c","h">>,
       <<"e","n","g","l","i","s","h">>,
       <<"e","n","g","l","i","s","h","c","o","l","l">>,
       <<"e","n","g","l","i","s","h","s","c","i">>,
       <<"e","s","t","o","n","i","a","n">>,
       <<"f","r","e","n","c","h">>,
       <<"g","e","r","m","a","n">>,
       <<"i","t","a","l","i","a","n">>,
       <<"p","o","r","t","u","g","u","e","s","e">>,
       <<"r","u","s","s","i","a","n">>,
       <<"s","p","a","n","i","s","h">>,
       <<"v","i","e","t","n","a","m","e","s","e">> >>

AVAILABLE_DOCUMENT_TYPES ==
    << <<"c","o","l","l","o","q","u","i","a","l">>,
       <<"n","a","r","r","a","t","i","v","e","s">>,
       <<"n","e","w","s">>,
       <<"s","c","i","e","n","t","i","f","i","c">> >>

AVAILABLE_OUTPUT_TYPES ==
    << <<"t","i","m","e","m","l">>,
       <<"x","m","i">> >>

(***************************************************************************)
(* datetime.strptime for the two formats the wrapper uses, and strftime     *)
(***************************************************************************)
At(s, i) == IF i >= 1 /\ i <= Len(s) THEN s[i] ELSE ""

NonZeroDigit(c) == IsDigit(c) /\ c # "0"

\* %Y is (?P<Y>\d\d\d\d), %y is (?P<y>\d\d): the position after the year
\* field that starts at i, or 0 when it does not match.
YearEnd(s, i, width) ==
    IF \A k \in 0..(width - 1) : IsDigit(At(s, i + k)) THEN i + width ELSE 0

\* %m is (?P<m>1[0-2]|0[1-9]|[1-9]): the end positions of the alternatives
\* that match at i, in the order the regular expression tries them.
MonthEnds(s, i) ==
    SelectSeq(
      << IF At(s, i) = "1" /\ At(s, i + 1) \in {"0", "1", "2"} THEN i + 2 ELSE 0,
         IF At(s, i) = "0" /\ NonZeroDigit(At(s, i + 1)) THEN i + 2 ELSE 0,
         IF NonZeroDigit(At(s, i)) THEN i + 1 ELSE 0 >>,
      LAMBDA e : e # 0)

\* %d is (?P<d>3[0-1]|[1-2]\d|0[1-9]|[1-9]| [1-9]).
DayEnds(s, i) ==
    SelectSeq(
      << IF At(s, i) = "3" /\ At(s, i + 1) \in {"0", "1"} THEN i + 2 ELSE 0,
         IF At(s, i) \in {"1", "2"} /\ IsDigit(At(s, i + 1)) THEN i + 2 ELSE 0,
         IF At(s, i) = "0" /\ NonZeroDigit(At(s, i + 1)) THEN i + 2 ELSE 0,
         IF NonZeroDigit(At(s, i)) THEN i + 1 ELSE 0,
         IF At(s, i) = " " /\ NonZeroDigit(At(s, i + 1)) THEN i + 2 ELSE 0 >>,
      LAMBDA e : e # 0)

\* int() of the characters s[from..to-1]; int() ignores surrounding blanks.
RECURSIVE IntOf(_, _, _)
IntOf(s, from, to) ==
    IF to <= from THEN 0
    ELSE IF s[to - 1] = " " THEN IntOf(s, from, to - 1)
    ELSE 10 * IntOf(s, from, to - 1) + DigitVal(s[to - 1])

IsLeap(y) == (y % 4 = 0) /\ ((y % 100 # 0) \/ (y % 400 = 0))

DaysInMonth(y, m) ==
    IF m = 2 THEN (IF IsLeap(y) THEN 29 ELSE 28)
    ELSE IF m \in {4, 6, 9, 11} THEN 30 ELSE 31

MINYEAR == 1

\* datetime.date(y, m, d) raises ValueError outside these ranges.
ValidDate(y, m, d) ==
    /\ y >= MINYEAR
    /\ m >= 1 /\ m <= 12
    /\ d >= 1 /\ d <= DaysInMonth(y, m)

\* A two-digit year: 0..68 is 2000..2068, 69..99 is 1969..1999.
PivotYear == 68

\* Two-digit years all taken to be in the 1900s.
Century_1900(y) == y + 1900

Century(y) == IF y <= PivotYear THEN y + 2000 ELSE y + 1900

StrptimeFail == [ok |-> FALSE, year |-> 0, month |-> 0, day |-> 0]

\* datetime.strptime(s, "%Y/%m/%d") when width = 4 and
\* datetime.strptime(s, "%y/%m/%d") when width = 2.  The regular expression
\* is matched from the start of s with backtracking over the alternatives of
\* %m; the first day alternative that matches ends the match, and data left
\* after it ("unconverted data remains") is a ValueError like a mismatch.
Strptime(s, width) ==
    LET ye == YearEnd(s, 1, width)
        ms == IF ye = 0 \/ At(s, ye) # "/" THEN << >> ELSE MonthEnds(s, ye + 1)
        good == SelectSeq(ms, LAMBDA me : At(s, me) = "/" /\ DayEnds(s, me + 1) # << >>)
    IN  IF good = << >> THEN StrptimeFail
        ELSE LET me == good[1]
                 de == DayEnds(s, me + 1)[1]
                 yraw == IntOf(s, 1, ye)
                 y == IF width = 4 THEN yraw ELSE Century(yraw)
                 m == IntOf(s, ye + 1, me)
                 d == IntOf(s, me + 1, de)
             IN  IF de # Len(s) + 1 THEN StrptimeFail
                 ELSE IF ~ValidDate(y, m, d) THEN StrptimeFail
                 ELSE [ok |-> TRUE, year |-> y, month |-> m, day |-> d]

TwoDigits(n) == << Digits[(n \div 10) + 1], Digits[(n % 10) + 1] >>

RECURSIVE Decimal(_)
Decimal(n) == IF n < 10 THEN << Digits[n + 1] >> ELSE Decimal(n \div 10) \o << Digits[(n % 10) + 1] >>

\* strftime("%Y-%m-%d").  The C library writes %Y as the decimal year (no
\* zero padding below 1000) and %m, %d with two digits.
Strftime(dt) ==
    Decimal(dt.year) \o <<"-">> \o TwoDigits(dt.month) \o <<"-">> \o TwoDigits(dt.day)

(***************************************************************************)
(* Paths (pathlib.Path): absolute or relative, a sequence of components     *)
(***************************************************************************)
Path(abs, parts) == [abs |-> abs, parts |-> parts]

\* Path.__truediv__: an absolute right operand replaces the left one.
PathJoin(a, b) == IF b.abs THEN b ELSE Path(a.abs, a.parts \o b.parts)

\* The locations that exist on disk besides the temporary files.
ToolDir == Path(TRUE, <<"opt", "heideltime">>)

JavaBin == Path(TRUE, <<"usr", "bin", "java">>)

ExistingPaths == {ToolDir, JavaBin, Path(FALSE, <<"hconfig.json">>), Path(FALSE, <<"broken.json">>)}

Exists(p) == p \in ExistingPaths

(***************************************************************************)
(* Configuration mappings and HeidelTime.__init__                           *)
(***************************************************************************)
\* A key a mapping does not hold.
Absent == [absent |-> TRUE]

Keys == {"heideltime_path", "java_path", "start_date", "conf_heideltime", "doc_type",
         "lang", "output_type", "encoding", "verbosity", "interval_tagger", "locale",
         "pos_tagger"}

EmptyConfig == [k \in Keys |-> Absent]

\* A key a mapping holds, with its value.
Val(v) == [val |-> v]

\* dict.get(key) and dict.get(key, default)
Get(config, key) == IF config[key] = Absent THEN None ELSE config[key].val

GetDefault(config, key, default) == IF config[key] = Absent THEN default ELSE config[key].val

\* A string that may be None (the locale).
Str(s) == [str |-> s]

NoExc == [type |-> "none", msg |-> << >>]

Exc(type, msg) == [type |-> type, msg |-> msg]

Raised(r) == r.exc # NoExc

S_narratives == AVAILABLE_DOCUMENT_TYPES[2]

S_french == AVAILABLE_LANGUAGES[9]

S_TIMEML == <<"T","I","M","E","M","L">>

\* The three validated setters; each returns the exception raised (or NoExc)
\* and the object as the call leaves it.
\* set_lang that stores the value before it validates it.
set_lang_store_first(self, lang) ==
    IF ~InList(Lower(lang), AVAILABLE_LANGUAGES)
    THEN [exc |-> Exc("ValueError", <<"Languague is not supported">>),
          obj |-> [self EXCEPT !.lang = Lower(lang)]]
    ELSE [exc |-> NoExc, obj |-> [self EXCEPT !.lang = Lower(lang)]]

set_lang(self, lang) ==
    IF ~InList(Lower(lang), AVAILABLE_LANGUAGES)
    THEN [exc |-> Exc("ValueError", <<"Languague is not supported">>), obj |-> self]
    ELSE [exc |-> NoExc, obj |-> [self EXCEPT !.lang = Lower(lang)]]

set_type(self, type) ==
    IF ~InList(Lower(type), AVAILABLE_DOCUMENT_TYPES)
    THEN [exc |-> Exc("ValueError", <<"Document type is not specified">>), obj |-> self]
    ELSE [exc |-> NoExc, obj |-> [self EXCEPT !.doc_type = type]]

out_type(self, o_type) ==
    IF ~InList(Lower(o_type), AVAILABLE_OUTPUT_TYPES)
    THEN [exc |-> Exc("ValueError", <<"output type is not specified">>), obj |-> self]
    ELSE [exc |-> NoExc, obj |-> [self EXCEPT !.output_type = o_type]]

DateOf(p, kind) == [year |-> p.year, month |-> p.month, day |-> p.day, kind |-> kind]

\* set_time stores the datetime strptime returns (no .date()).
SetTimeOf(self, p4, p2) ==
    IF p4.ok THEN [exc |-> NoExc, obj |-> [self EXCEPT !.start_date = DateOf(p4, "datetime")]]
    ELSE IF p2.ok THEN [exc |-> NoExc, obj |-> [self EXCEPT !.start_date = DateOf(p2, "datetime")]]
    ELSE [exc |-> Exc("ValueError", <<"doc_time must be in format 'YYYY/MM/DD or YY/MM/DD'">>),
          obj |-> self]

set_time(self, doc_time) == SetTimeOf(self, Strptime(doc_time, 4), Strptime(doc_time, 2))

\* The configuration files on disk: whether the content of the file at p
\* is JSON, and the mapping json.load returns.
ConfigFile(p) ==
    IF p = Path(FALSE, <<"hconfig.json">>)
    THEN [json |-> TRUE, config |-> [EmptyConfig EXCEPT !["heideltime_path"] = Val(ToolDir)]]
    ELSE [json |-> FALSE, config |-> EmptyConfig]

\* _loadconfig: source is [kind |-> "dict", value |-> mapping],
\* [kind |-> "path", value |-> path] or [kind |-> "other"].  `config is {}`
\* is an identity test against a fresh dict and never holds.
_loadconfig(source) ==
    IF source.kind = "dict" THEN [exc |-> NoExc, config |-> source.value]
    ELSE IF source.kind = "path"
    THEN IF ~Exists(source.value)
         THEN [exc |-> Exc("FileNotFoundError", <<"Configuration File for the wrapper is not found">>),
               config |-> EmptyConfig]
         ELSE IF ~ConfigFile(source.value).json
         THEN [exc |-> Exc("ValueError", <<"Invalid JSON configuration file">>), config |-> EmptyConfig]
         ELSE [exc |-> NoExc, config |-> ConfigFile(source.value).config]
    ELSE [exc |-> Exc("TypeError", <<"Configuration must be a dictionary, path string, or path Path object">>),
          config |-> EmptyConfig]

\* No instance (construction has not succeeded).
NoObj == [noobj |-> TRUE]

\* The date part of __init__: a falsy start_date (None or "") is today.
InitDateOf(p4, p2, today) ==
    IF p4.ok THEN [ok |-> TRUE, date |-> DateOf(p4, "date")]
    ELSE IF p2.ok THEN [ok |-> TRUE, date |-> DateOf(p2, "date")]
    ELSE [ok |-> FALSE, date |-> DateOf(today, "date")]

InitDate(config, today) ==
    IF config["start_date"] = Absent \/ config["start_date"].val = << >>
    THEN [ok |-> TRUE, date |-> DateOf(today, "date")]
    ELSE InitDateOf(Strptime(config["start_date"].val, 4), Strptime(config["start_date"].val, 2), today)

Fail(type, msg) == [exc |-> Exc(type, msg), obj |-> NoObj]

\* __init__ without the existence test.
HeidelExists_unchecked(heidel) == TRUE

\* The existence test of the tool path in __init__.
HeidelExists(heidel) == Exists(heidel)

\* The fields as __init__ assigns them, before the validating setters run.
InitFields(config, heideltime_path, conf, start_date) ==
    [heidel |-> heideltime_path,
     java |-> GetDefault(config, "java_path", Path(FALSE, <<"java">>)),
     start_date |-> start_date,
     conf_heideltime |-> IF conf = None
                         THEN PathJoin(heideltime_path, Path(FALSE, <<"config.props">>))
                         ELSE conf,
     doc_type |-> GetDefault(config, "doc_type", S_narratives),
     lang |-> GetDefault(config, "lang", S_french),
     output_type |-> GetDefault(config, "output_type", S_TIMEML),
     encoding |-> GetDefault(config, "encoding", "UTF-8"),
     verbosity |-> GetDefault(config, "verbosity", FALSE),
     interval_tagger |-> GetDefault(config, "interval_tagger", FALSE),
     locale |-> IF config["locale"] = Absent THEN None ELSE Str(config["locale"].val),
     pos_tagger |-> GetDefault(config, "pos_tagger", "no")]

\* self.set_type(self.doc_type); self.set_lang(self.lang); self.out_type(self.output_type)
InitOutType(r2) ==
    IF Raised(r2) THEN [exc |-> r2.exc, obj |-> NoObj] ELSE out_type(r2.obj, r2.obj.output_type)

InitLang(r1) ==
    IF Raised(r1) THEN [exc |-> r1.exc, obj |-> NoObj] ELSE InitOutType(set_lang(r1.obj, r1.obj.lang))

InitValidated(self) == InitLang(set_type(self, self.doc_type))

InitChecked(r3) == IF Raised(r3) THEN [exc |-> r3.exc, obj |-> NoObj] ELSE r3

InitWithDate(config, heideltime_path, d) ==
    IF ~d.ok
    THEN Fail("ValueError", <<"start_date must be in format 'YYYY/MM/DD or YY/MM/DD'">>)
    ELSE InitChecked(InitValidated(
           InitFields(config, heideltime_path, Get(config, "conf_heideltime"), d.date)))

InitWithPath(config, heideltime_path, today) ==
    IF heideltime_path = None
    THEN Fail("ValueError", <<"Please specify the path to Heideltime.standalone.jar in the configuration">>)
    ELSE IF ~HeidelExists(heideltime_path)
    THEN Fail("FileNotFoundError", <<"HeidelTime jar file is not found">>)
    ELSE InitWithDate(config, heideltime_path, InitDate(config, today))

InitLoaded(loaded, today) ==
    IF Raised(loaded) THEN [exc |-> loaded.exc, obj |-> NoObj]
    ELSE InitWithPath(loaded.config, Get(loaded.config, "heideltime_path"), today)

\* HeidelTime.__init__(config) with the clock reading `today`: the exception
\* it raises, or the instance it leaves.
HeidelTimeInit(source, today) == InitLoaded(_loadconfig(source), today)

(***************************************************************************)
(* The remaining setters                                                    *)
(***************************************************************************)
set_encod(self, encod) == [exc |-> NoExc, obj |-> [self EXCEPT !.encoding = encod]]

set_config(self, conf_path, abs) ==
    [exc |-> NoExc,
     obj |-> [self EXCEPT !.conf_heideltime =
                IF ~abs THEN PathJoin(self.heidel, conf_path) ELSE conf_path]]

set_verbosity(self, verbosity) == [exc |-> NoExc, obj |-> [self EXCEPT !.verbosity = verbosity]]

set_interval_tagger(self, interval_tagger) ==
    [exc |-> NoExc, obj |-> [self EXCEPT !.interval_tagger = interval_tagger]]

set_locale(self, locale) == [exc |-> NoExc, obj |-> [self EXCEPT !.locale = locale]]

set_pos_tagger(self, pos_tagger) == [exc |-> NoExc, obj |-> [self EXCEPT !.pos_tagger = pos_tagger]]

(***************************************************************************)
(* Text encodings: str.encode / bytes.decode for the codecs a call may name *)
(***************************************************************************)
\* The characters of the documents: an ASCII letter and e-acute.
Chars == <<"a", "U+00E9">>

CodePoints == <<97, 233>>

Ord(c) == CodePoints[CHOOSE i \in 1..Len(Chars) : Chars[i] = c]

Chr(cp) == Chars[CHOOSE i \in 1..Len(CodePoints) : CodePoints[i] = cp]

\* codecs.lookup succeeds for these names.
KnownEncoding(encoding) == encoding \in {"UTF-8", "ascii"}

\* One character as bytes, << >> when the codec cannot encode it.
EncodeChar(c, encoding) ==
    IF Ord(c) < 128 THEN << Ord(c) >>
    ELSE IF encoding = "UTF-8" THEN << 192 + (Ord(c) \div 64), 128 + (Ord(c) % 64) >>
    ELSE << >>

RECURSIVE EncodeFrom(_, _, _)
EncodeFrom(s, i, encoding) ==
    IF i > Len(s) THEN [ok |-> TRUE, bytes |-> << >>]
    ELSE IF EncodeChar(s[i], encoding) = << >> THEN [ok |-> FALSE, bytes |-> << >>]
    ELSE [ok |-> EncodeFrom(s, i + 1, encoding).ok,
          bytes |-> EncodeChar(s[i], encoding) \o EncodeFrom(s, i + 1, encoding).bytes]

\* s.encode(encoding): ok is FALSE for UnicodeEncodeError.
Encode(s, encoding) == EncodeFrom(s, 1, encoding)

IsContinuation(b) == b >= 128 /\ b <= 191

\* The number of bytes of the character that starts at b[i], 0 when the
\* bytes there are not valid in the codec.
CharWidth(b, i, encoding) ==
    IF b[i] < 128 THEN 1
    ELSE IF encoding = "UTF-8" /\ b[i] >= 194 /\ b[i] <= 223 /\ i < Len(b) /\ IsContinuation(b[i + 1])
    THEN 2
    ELSE 0

CharAt(b, i, width) == IF width = 1 THEN Chr(b[i]) ELSE Chr((b[i] - 192) * 64 + (b[i + 1] - 128))

RECURSIVE DecodeFrom(_, _, _)
DecodeFrom(b, i, encoding) ==
    IF i > Len(b) THEN [ok |-> TRUE, text |-> << >>]
    ELSE IF CharWidth(b, i, encoding) = 0 THEN [ok |-> FALSE, text |-> << >>]
    ELSE [ok |-> DecodeFrom(b, i + CharWidth(b, i, encoding), encoding).ok,
          text |-> << CharAt(b, i, CharWidth(b, i, encoding)) >>
                     \o DecodeFrom(b, i + CharWidth(b, i, encoding), encoding).text]

\* b.decode(encoding): ok is FALSE for UnicodeDecodeError.
Decode(b, encoding) == DecodeFrom(b, 1, encoding)

(***************************************************************************)
(* parse(): the temporary file, the command, the child process, cleanup     *)
(***************************************************************************)
NumNames == 2

\* The names mkstemp can draw for heideltime_*.tmp.
TmpNames == 1..NumNames

NoFile == [nofile |-> TRUE]

File(data) == [data |-> data]

NoTmp == 0

NoChild == [exit |-> -1, stdout |-> << >>, stderr |-> << >>]

\* A parse() call: where it is, its argument, its temporary file, the
\* command it built, what the child read and gave back, and how it ended;
\* prev is the temporary file of the call the same caller made just before.
Call(pc, doc, tmp, cmd, child, seen, result, exc) ==
    [pc |-> pc, doc |-> doc, tmp |-> tmp, cmd |-> cmd, child |-> child, seen |-> seen,
     result |-> result, exc |-> exc, prev |-> NoTmp]

IdleThread == Call("idle", << >>, NoTmp, << >>, NoChild, NoFile, None, NoExc)

\* What one step of a call leaves: the call and the temporary directory.
Step(th, dsk) == [th |-> th, disk |-> dsk]

Ended(th, exc) == [th EXCEPT !.pc = "done", !.exc = exc]

\* parse() that makes its temporary file before it looks at the document.
parse_open_create_first(self, dsk, doc, name) ==
    IF doc = << >>
    THEN Step(Ended([IdleThread EXCEPT !.doc = doc, !.tmp = name],
                    Exc("ValueError", <<"No text provided to parse">>)),
              [dsk EXCEPT ![name] = File(<< >>)])
    ELSE IF ~KnownEncoding(self.encoding)
    THEN Step(Ended([IdleThread EXCEPT !.doc = doc], Exc("LookupError", <<"unknown encoding">>)), dsk)
    ELSE Step([IdleThread EXCEPT !.pc = "opened", !.doc = doc, !.tmp = name],
              [dsk EXCEPT ![name] = File(<< >>)])

\* `if not doc: raise ValueError`, then NamedTemporaryFile(..., delete=False):
\* mkstemp creates the file `name` names, which must not exist, and opening
\* it with an unknown encoding removes it again before LookupError leaves.
parse_open(self, dsk, doc, name) ==
    IF doc = << >>
    THEN Step(Ended([IdleThread EXCEPT !.doc = doc], Exc("ValueError", <<"No text provided to parse">>)), dsk)
    ELSE IF ~KnownEncoding(self.encoding)
    THEN Step(Ended([IdleThread EXCEPT !.doc = doc], Exc("LookupError", <<"unknown encoding">>)), dsk)
    ELSE Step([IdleThread EXCEPT !.pc = "opened", !.doc = doc, !.tmp = name],
              [dsk EXCEPT ![name] = File(<< >>)])

\* tmp_file.write(doc) and leaving the with block, which closes the file
\* and, with delete=False, keeps it.
WriteEncoded(th, dsk, enc) ==
    IF ~enc.ok
    THEN Step(Ended(th, Exc("UnicodeEncodeError", <<"codec can't encode character">>)), dsk)
    ELSE Step([th EXCEPT !.pc = "written"], [dsk EXCEPT ![th.tmp] = File(enc.bytes)])

parse_write(self, dsk, th) == WriteEncoded(th, dsk, Encode(th.doc, self.encoding))

Cwd == Path(TRUE, <<"home", "user">>)

\* Path.absolute()
Absolute(p) == IF p.abs THEN p ELSE PathJoin(Cwd, p)

TmpPath(name) == [tmp |-> name]

\* -pos left out for the default tagger name.
PosTaggerSet_unless_default(self) == self.pos_tagger # "no"

\* `if self.pos_tagger:`
PosTaggerSet(self) == self.pos_tagger # ""

\* The command list as parse() puts it together.
BuildCmd(self, tmp_file_path) ==
    << self.java, "-jar",
       Absolute(PathJoin(self.heidel, Path(FALSE, <<"de.unihd.dbs.heideltime.standalone.jar">>))),
       tmp_file_path,
       "-l", self.lang,
       "-t", self.doc_type,
       "-o", self.output_type,
       "-c", self.conf_heideltime,
       "-e", self.encoding,
       "-dct", Strftime(self.start_date) >>
    \o (IF self.verbosity THEN <<"-v">> ELSE << >>)
    \o (IF self.interval_tagger THEN <<"-it">> ELSE << >>)
    \o (IF self.locale # None /\ self.locale # Str("") THEN <<"-locale", self.locale.str>> ELSE << >>)
    \o (IF PosTaggerSet(self) THEN <<"-pos", self.pos_tagger>> ELSE << >>)

\* The executables the operating system finds: a bare name is looked up on
\* PATH, which holds /usr/bin.
CanLaunch(java) == Exists(IF java.abs THEN java ELSE PathJoin(Path(TRUE, <<"usr", "bin">>), java))

ExitString(exit) == <<"Command returned non-zero exit status ">> \o Decimal(exit)

\* `return result.decode(self.encoding)`
Returned(th, dec) ==
    IF dec.ok THEN [th EXCEPT !.result = [text |-> dec.text]]
    ELSE [th EXCEPT !.exc = Exc("UnicodeDecodeError", <<"codec can't decode byte">>)]

\* `except subprocess.CalledProcessError as e:` with e.stderr non-empty
Failed(th, dec) ==
    IF dec.ok THEN [th EXCEPT !.exc = Exc("RuntimeError", <<"HeidelTime execution failed: ">> \o dec.text)]
    ELSE [th EXCEPT !.exc = Exc("UnicodeDecodeError", <<"codec can't decode byte">>)]

\* check_output without the check: the output is returned whatever the exit
\* status.
Outcome_ignoring_status(th, child, encoding) == Returned(th, Decode(child.stdout, encoding))

\* What check_output and the two branches around it give.
Outcome(th, child, encoding) ==
    IF child.exit = 0 THEN Returned(th, Decode(child.stdout, encoding))
    ELSE IF child.stderr # << >> THEN Failed(th, Decode(child.stderr, encoding))
    ELSE [th EXCEPT !.exc = Exc("RuntimeError", <<"HeidelTime execution failed: ">> \o ExitString(child.exit))]

\* The body of the outer try: build the command, run it, decode.  A launcher
\* the system does not find raises FileNotFoundError from check_output.
parse_run(self, dsk, th, child) ==
    IF ~CanLaunch(self.java)
    THEN [th EXCEPT !.pc = "finally", !.cmd = BuildCmd(self, TmpPath(th.tmp)),
                    !.exc = Exc("FileNotFoundError", <<"No such file or directory">>)]
    ELSE Outcome([th EXCEPT !.pc = "finally", !.cmd = BuildCmd(self, TmpPath(th.tmp)),
                            !.child = child, !.seen = dsk[th.tmp]],
                 child, self.encoding)

\* Cleanup on the success path only, in place of the finally clause.
parse_finally_on_success(dsk, th) ==
    Step([th EXCEPT !.pc = "done"], IF th.exc = NoExc THEN [dsk EXCEPT ![th.tmp] = NoFile] ELSE dsk)

\* finally: Path(tmp_file_path).unlink(missing_ok=True)
parse_finally(dsk, th) == Step([th EXCEPT !.pc = "done"], [dsk EXCEPT ![th.tmp] = NoFile])

\* The whole of parse(doc), drawing `name` for the file and `child` for what
\* the child process does.
ParseFinish(self, s, child) ==
    IF s.th.pc = "done" THEN s
    ELSE parse_finally(s.disk, parse_run(self, s.disk, s.th, child))

ParseWritten(self, s, child) ==
    IF s.th.pc = "done" THEN s ELSE ParseFinish(self, parse_write(self, s.disk, s.th), child)

parse(self, dsk, doc, name, child) == ParseWritten(self, parse_open(self, dsk, doc, name), child)

(***************************************************************************)
(* State: the instance, the last completed call, the temporary directory,   *)
(* and the parse() calls in progress                                        *)
(***************************************************************************)
NumThreads == 2

Threads == 1..NumThreads

\* No parse() call is in progress.
AllIdle == \A t \in Threads : thr[t].pc \in {"idle", "done"}

\* The last completed call: its name, argument and exception, and the
\* instance and temporary directory as they were when it was made.
NoCall == [op |-> "none", arg |-> None, exc |-> NoExc, pre |-> NoObj, disk0 |-> << >>]

Called(op, arg, r) == [op |-> op, arg |-> arg, exc |-> r.exc, pre |-> obj, disk0 |-> disk]

\* The clock readings datetime.now() may give __init__.
Todays == {[year |-> 2026, month |-> 11, day |-> 3]}

\* h = HeidelTime(config): the instance exists only if __init__ returns.
Constructed(source, r) ==
    /\ obj' = r.obj
    /\ last' = Called("__init__", source, r)
    /\ UNCHANGED <<disk, thr>>

Construct(source) ==
    /\ obj = NoObj
    /\ \E today \in Todays : Constructed(source, HeidelTimeInit(source, today))

\* A setter call on the instance, made while no parse() is in progress; the
\* caller has let go of what its earlier parse() calls gave.
Setter(op, arg, r) ==
    /\ obj # NoObj
    /\ AllIdle
    /\ obj' = r.obj
    /\ last' = Called(op, arg, r)
    /\ thr' = [t \in Threads |-> IdleThread]
    /\ UNCHANGED disk

Call_set_time(doc_time) == obj # NoObj /\ Setter("set_time", doc_time, set_time(obj, doc_time))

Call_set_lang(lang) == obj # NoObj /\ Setter("set_lang", lang, set_lang(obj, lang))

Call_set_type(type) == obj # NoObj /\ Setter("set_type", type, set_type(obj, type))

Call_out_type(o_type) == obj # NoObj /\ Setter("out_type", o_type, out_type(obj, o_type))

Call_set_encod(encod) == obj # NoObj /\ Setter("set_encod", encod, set_encod(obj, encod))

Call_set_config(conf_path, abs) ==
    obj # NoObj /\ Setter("set_config", <<conf_path, abs>>, set_config(obj, conf_path, abs))

Call_set_verbosity(v) == obj # NoObj /\ Setter("set_verbosity", v, set_verbosity(obj, v))

Call_set_interval_tagger(v) ==
    obj # NoObj /\ Setter("set_interval_tagger", v, set_interval_tagger(obj, v))

Call_set_locale(l) == obj # NoObj /\ Setter("set_locale", l, set_locale(obj, l))

Call_set_pos_tagger(v) == obj # NoObj /\ Setter("set_pos_tagger", v, set_pos_tagger(obj, v))

\* A temporary name taken without looking whether it is in use.
NameIsFree_unchecked(doc, name) == TRUE

\* mkstemp opens with O_CREAT | O_EXCL: the name it settles on is free.
\* (Nothing is created for an empty document or an unknown encoding.)
NameIsFree(doc, name) == doc = << >> \/ ~KnownEncoding(obj.encoding) \/ disk[name] = NoFile

Starts(t) == obj # NoObj /\ thr[t].pc \in {"idle", "done"}

\* result = h.parse(doc), from the call to its return or exception.
Parsed(t, doc, s) ==
    /\ thr' = [thr EXCEPT ![t] = [s.th EXCEPT !.prev = thr[t].tmp]]
    /\ disk' = s.disk
    /\ last' = Called("parse", doc, s.th)
    /\ UNCHANGED obj

Parse(t, doc, name, child) ==
    /\ Starts(t)
    /\ AllIdle
    /\ NameIsFree(doc, name)
    /\ Parsed(t, doc, parse(obj, disk, doc, name, child))

\* The same call step by step, for calls that overlap in time.
Stepped(t, s) ==
    /\ thr' = [thr EXCEPT ![t] = s.th]
    /\ disk' = s.disk
    /\ UNCHANGED <<obj, last>>

Opened(t, s) ==
    /\ thr' = [thr EXCEPT ![t] = [s.th EXCEPT !.prev = thr[t].tmp]]
    /\ disk' = s.disk
    /\ UNCHANGED <<obj, last>>

ParseOpen(t, doc, name) ==
    /\ Starts(t)
    /\ NameIsFree(doc, name)
    /\ Opened(t, parse_open(obj, disk, doc, name))

ParseWrite(t) ==
    /\ thr[t].pc = "opened"
    /\ Stepped(t, parse_write(obj, disk, thr[t]))

ParseRun(t, child) ==
    /\ thr[t].pc = "written"
    /\ Stepped(t, Step(parse_run(obj, disk, thr[t], child), disk))

ParseFinally(t) ==
    /\ thr[t].pc = "finally"
    /\ Stepped(t, parse_finally(disk, thr[t]))

(***************************************************************************)
(* Inputs                                                                   *)
(***************************************************************************)
UpperChar(c) ==
    IF \E i \in 1..Len(LowerCase) : LowerCase[i] = c
    THEN UpperCase[CHOOSE i \in 1..Len(LowerCase) : LowerCase[i] = c]
    ELSE c

Upper(s) == [i \in 1..Len(s) |-> UpperChar(s[i])]

Capitalize(s) == [i \in 1..Len(s) |-> IF i = 1 THEN UpperChar(s[i]) ELSE s[i]]

Members(list) == {list[i] : i \in 1..Len(list)}

Casings(list) == Members(list) \cup {Upper(x) : x \in Members(list)}
                   \cup {Capitalize(x) : x \in Members(list)}

BadLangs == { << >>, <<"f","r","e","n","s","h">>, <<"f","r","e","n","c","h"," ">>,
              <<"k","l","i","n","g","o","n">>, <<"n","e","w","s">> }

BadTypes == { << >>, <<"n","e","w">>, <<"n","e","w","s","s">>, <<"x","m","i">> }

BadOutputs == { << >>, <<"j","s","o","n">>, <<"x","m","l">>, <<"t","i","m","e","m","l","3">> }

LangInputs ==
    Casings(<<AVAILABLE_LANGUAGES[1], AVAILABLE_LANGUAGES[6], S_french, AVAILABLE_LANGUAGES[15]>>)
      \cup BadLangs

TypeInputs == Casings(AVAILABLE_DOCUMENT_TYPES) \cup BadTypes

OutputInputs == Casings(AVAILABLE_OUTPUT_TYPES) \cup BadOutputs

D_2025_03_16 == <<"2","0","2","5","/","0","3","/","1","6">>

D_25_03_16 == <<"2","5","/","0","3","/","1","6">>

D_2025_03_16_dash == <<"2","0","2","5","-","0","3","-","1","6">>

\* Date strings: every way of putting a year, a month and a day from these
\* fields together with the two separators, and a few more strings.
YearFields == { <<"2","0","2","5">>, <<"2","5">>, <<"2","0","2","4">>, <<"6","9">>,
                <<"0","0","0","0">> }

MonthFields == { <<"0","3">>, <<"3">>, <<"0","2">>, <<"1","3">> }

DayFields == { <<"1","6">>, <<"2","9">>, <<"3","1">>, <<" ","1">>, <<"1","6","0">> }

DateInputs ==
    { y \o <<"/">> \o m \o <<"/">> \o d : y \in YearFields, m \in MonthFields, d \in DayFields }
    \cup { << >>, <<"t","o","d","a","y">>, D_2025_03_16_dash,
           <<"2","5","-","0","3","-","1","6">>, <<"2","0","2","5","/","0","3","-","1","6">>,
           D_2025_03_16 \o <<" ">>, <<" ">> \o D_2025_03_16,
           <<"2","0","2","/","0","3","/","1","6">>, <<"2","0","2","5","5","/","0","3","/","1","6">>,
           <<"2","0","2","5","/","0","3","/","3","2">>, <<"2","0","2","5","/","0","3","/">>,
           <<"1","6","/","0","3","/","2","0","2","5">>, <<"6","8","/","1","2","/","1">> }

FewDates == {D_25_03_16, D_2025_03_16_dash}

Nowhere == Path(TRUE, <<"nowhere">>)

BaseConfig == [EmptyConfig EXCEPT !["heideltime_path"] = Val(ToolDir)]

\* Mappings that differ in the tool path and the validated fields.
ValidatedConfigs ==
    { [EmptyConfig EXCEPT !["heideltime_path"] = hp, !["lang"] = l, !["doc_type"] = t,
                          !["output_type"] = o, !["start_date"] = sd] :
        hp \in {Absent, Val(None), Val(ToolDir), Val(Nowhere)},
        l \in {Absent, Val(AVAILABLE_LANGUAGES[5]), Val(Upper(S_french)), Val(<<"f","r","e","n","s","h">>)},
        t \in {Absent, Val(Upper(AVAILABLE_DOCUMENT_TYPES[3])), Val(<<"n","e","w">>)},
        o \in {Absent, Val(AVAILABLE_OUTPUT_TYPES[2]), Val(<<"j","s","o","n">>)},
        sd \in {Absent, Val(D_2025_03_16_dash)} }

ConfigSources ==
    { [kind |-> "dict", value |-> c] : c \in ValidatedConfigs }
    \cup { [kind |-> "path", value |-> Path(FALSE, <<f>>)] : f \in {"hconfig.json", "broken.json", "missing.json"} }
    \cup { [kind |-> "other"] }

DateSources ==
    { [kind |-> "dict", value |-> [BaseConfig EXCEPT !["start_date"] = sd]] :
        sd \in {Absent} \cup {Val(x) : x \in DateInputs} }

\* Documents: empty, ASCII, and with a character ASCII cannot encode.
Docs == { << >>, <<"a">>, <<"U+00E9">>, <<"a", "U+00E9">> }

\* Child output: empty, ASCII, e-acute in UTF-8, and bytes no codec here
\* decodes.
Outputs == { << >>, <<97>>, <<195, 169>>, <<97, 195, 169>>, <<195>>, <<169, 97>> }

\* What the child does: it exits 0 having written to standard output, or
\* exits with another status having written to standard error; and a few
\* children that write to both.
Children ==
    { [exit |-> e, stdout |-> IF e = 0 THEN b ELSE << >>, stderr |-> IF e = 0 THEN << >> ELSE b] :
        e \in {0, 1}, b \in Outputs }
    \cup { [exit |-> 0, stdout |-> <<97>>, stderr |-> <<97>>],
           [exit |-> 1, stdout |-> <<97>>, stderr |-> <<97>>],
           [exit |-> 2, stdout |-> <<97>>, stderr |-> << >>],
           [exit |-> 127, stdout |-> << >>, stderr |-> <<195, 169>>] }

NoJava == Path(TRUE, <<"usr", "local", "bin", "java">>)

\* Mappings that differ in the launcher and the encoding.
ParseSources ==
    { [kind |-> "dict", value |-> [BaseConfig EXCEPT !["java_path"] = j, !["encoding"] = e]] :
        j \in {Absent, Val(JavaBin), Val(NoJava)}, e \in {Absent, Val("ascii")} }

Instances(sources) ==
    { HeidelTimeInit(source, today).obj : source \in sources, today \in Todays } \ {NoObj}

Encodings == {"UTF-8", "ascii", "utf-9"}

(***************************************************************************)
(* Specifications                                                           *)
(***************************************************************************)
InitNoInstance ==
    /\ obj = NoObj
    /\ last = NoCall
    /\ disk = [n \in TmpNames |-> NoFile]
    /\ thr = [t \in Threads |-> IdleThread]

\* Construction and the validated setters.
NextConfig ==
    \/ \E source \in ConfigSources : Construct(source)
    \/ \E lang \in LangInputs : Call_set_lang(lang)
    \/ \E type \in TypeInputs : Call_set_type(type)
    \/ \E o_type \in OutputInputs : Call_out_type(o_type)
    \/ \E doc_time \in FewDates : Call_set_time(doc_time)

SpecConfig == InitNoInstance /\ [][NextConfig]_vars

\* Date parsing, at construction and in set_time.
NextDate ==
    \/ \E source \in DateSources : Construct(source)
    \/ \E doc_time \in DateInputs : Call_set_time(doc_time)

SpecDate == InitNoInstance /\ [][NextDate]_vars

\* parse() on an instance, one call at a time, with the encoding changing
\* between calls.
InitParse ==
    /\ obj \in Instances(ParseSources)
    /\ last = NoCall
    /\ disk = [n \in TmpNames |-> NoFile]
    /\ thr = [t \in Threads |-> IdleThread]

NextParse ==
    \/ \E doc \in Docs, name \in TmpNames, child \in Children : Parse(1, doc, name, child)
    \/ \E encod \in Encodings : Call_set_encod(encod)

Spec == InitParse /\ [][NextParse]_vars

\* parse() calls that overlap in time on one instance.
ConcDocs == { <<"a">>, <<"U+00E9">> }

ConcChildren == { [exit |-> 0, stdout |-> <<97>>, stderr |-> << >>] }

\* One instance for each encoding the documents do and do not fit.
ConcSources ==
    { [kind |-> "dict", value |-> [BaseConfig EXCEPT !["encoding"] = e]] : e \in {Absent, Val("ascii")} }

InitConc ==
    /\ obj \in { HeidelTimeInit(source, CHOOSE today \in Todays : TRUE).obj : source \in ConcSources }
    /\ last = NoCall
    /\ disk = [n \in TmpNames |-> NoFile]
    /\ thr = [t \in Threads |-> IdleThread]

NextConc ==
    \/ \E t \in Threads, doc \in ConcDocs, name \in TmpNames : ParseOpen(t, doc, name)
    \/ \E t \in Threads : ParseWrite(t)
    \/ \E t \in Threads, child \in ConcChildren : ParseRun(t, child)
    \/ \E t \in Threads : ParseFinally(t)

SpecConc == InitConc /\ [][NextConc]_vars

\* The command line: construction with the optional fields, the setters,
\* and parse() of one document with a child that succeeds.
CmdSources ==
    { [kind |-> "dict",
       value |-> [BaseConfig EXCEPT !["verbosity"] = v, !["interval_tagger"] = it,
                                    !["locale"] = l, !["pos_tagger"] = pos]] :
        v \in {Absent, Val(TRUE)}, it \in {Absent, Val(TRUE)},
        l \in {Absent, Val("fr_FR")}, pos \in {Absent, Val("TREETAGGER")} }

Props == Path(FALSE, <<"conf", "my.props">>)

NextCmd ==
    \/ \E source \in CmdSources : Construct(source)
    \/ \E v \in BOOLEAN : Call_set_verbosity(v)
    \/ \E v \in BOOLEAN : Call_set_interval_tagger(v)
    \/ \E l \in {None, Str(""), Str("de_DE")} : Call_set_locale(l)
    \/ \E v \in {"no", "", "STANFORDPOSTAGGER"} : Call_set_pos_tagger(v)
    \/ \E abs \in BOOLEAN : Call_set_config(Props, abs)
    \/ \E lang \in {Upper(AVAILABLE_LANGUAGES[5])} : Call_set_lang(lang)
    \/ \E doc_time \in {D_25_03_16} : Call_set_time(doc_time)
    \/ \E name \in TmpNames : Parse(1, <<"a">>, name, [exit |-> 0, stdout |-> <<97>>, stderr |-> << >>])

SpecCmd == InitNoInstance /\ [][NextCmd]_vars

(***************************************************************************)
(* Properties of parse()                                                    *)
(***************************************************************************)
\* The call has come back: it returned or raised.
Over(t) == thr[t].pc = "done"

\* The call made a temporary file.
MadeFile(t) == thr[t].tmp # NoTmp

\* The child process of the call ran (check_output launched it).
ChildRan(t) == thr[t].child # NoChild

ReturnedText(t) == thr[t].exc = NoExc /\ thr[t].result # None

ExecutionError(t) == thr[t].exc.type = "RuntimeError"

\* s occurs in msg as a run of consecutive elements.
Contains(msg, s) == \E i \in 1..(Len(msg) + 1) : SubSeq(msg, i, i + Len(s) - 1) = s

\* C1: after parse() returns its result, and after it raises the execution
\* error for a child that exited non-zero, the temporary file the call
\* made is no longer on disk.
C1_FileGoneAfterReturnOrExecutionError ==
    \A t \in Threads :
        (Over(t) /\ MadeFile(t) /\ (ReturnedText(t) \/ (ExecutionError(t) /\ thr[t].child.exit # 0)))
            => disk[thr[t].tmp] = NoFile

C1_Witness ==
    /\ Over(1) /\ MadeFile(1) /\ ChildRan(1)
    /\ thr[1].child.exit # 0
    /\ ExecutionError(1)
    /\ thr[1].seen # NoFile
    /\ disk[thr[1].tmp] = NoFile

\* C2 as stated: exit status 0 always gives the decoded standard output as
\* the result, and any other exit status always gives the execution error
\* and no result.
C2_ExitStatusDecidesOutcome ==
    \A t \in Threads :
        (Over(t) /\ ChildRan(t)) =>
            /\ thr[t].child.exit = 0 => ReturnedText(t)
            /\ thr[t].child.exit # 0 => (ExecutionError(t) /\ thr[t].result = None)

Generic(t) == <<"HeidelTime execution failed: ">> \o ExitString(thr[t].child.exit)

\* C2, amended: when the stream parse() decodes is valid in the configured
\* encoding, exit status 0 gives the decoded standard output verbatim as
\* the result, and any other status gives the execution error whose message
\* holds the decoded standard error, or the generic message when standard
\* error is empty; when the stream is not valid in the encoding the call
\* raises the decoding error; and a non-zero status never gives a result.
C2_ExitStatusOutcomeWhenDecodable ==
    \A t \in Threads :
        (Over(t) /\ ChildRan(t)) =>
            LET out == Decode(thr[t].child.stdout, obj.encoding)
                err == Decode(thr[t].child.stderr, obj.encoding)
            IN  /\ (thr[t].child.exit = 0 /\ out.ok) =>
                      (thr[t].exc = NoExc /\ thr[t].result = [text |-> out.text])
                /\ (thr[t].child.exit = 0 /\ ~out.ok) =>
                      (thr[t].exc.type = "UnicodeDecodeError" /\ thr[t].result = None)
                /\ thr[t].child.exit # 0 => thr[t].result = None
                /\ (thr[t].child.exit # 0 /\ thr[t].child.stderr = << >>) =>
                      (ExecutionError(t) /\ thr[t].exc.msg = Generic(t))
                /\ (thr[t].child.exit # 0 /\ thr[t].child.stderr # << >> /\ err.ok) =>
                      (ExecutionError(t) /\ Contains(thr[t].exc.msg, err.text))
                /\ (thr[t].child.exit # 0 /\ thr[t].child.stderr # << >> /\ ~err.ok) =>
                      thr[t].exc.type = "UnicodeDecodeError"
                /\ (thr[t].child.stdout = <<195, 169>> /\ thr[t].child.exit = 0
                      /\ obj.encoding = "UTF-8") => thr[t].result = [text |-> <<"U+00E9">>]

C2_Witness ==
    /\ Over(1) /\ ChildRan(1)
    /\ thr[1].child.exit # 0
    /\ thr[1].child.stderr = <<195, 169>>
    /\ thr[1].child.stdout = << >>
    /\ ExecutionError(1)
    /\ Contains(thr[1].exc.msg, <<"U+00E9">>)

\* C3: parse() of the empty text raises the validation error and does
\* nothing else: no temporary file is made or written, no child process is
\* started, and the configuration fields are as they were.
C3_EmptyTextHasNoEffect ==
    (last.op = "parse" /\ last.arg = << >>) =>
        /\ last.exc.type = "ValueError"
        /\ thr[1].exc = last.exc
        /\ disk = last.disk0
        /\ obj = last.pre
        /\ ~MadeFile(1)
        /\ ~ChildRan(1)
        /\ thr[1].cmd = << >>
        /\ thr[1].result = None

C3_Witness ==
    /\ last.op = "parse" /\ last.arg = << >>
    /\ last.exc.type = "ValueError"
    /\ disk = last.disk0
    /\ \E n \in TmpNames : disk[n] # NoFile

\* C9: every way out of parse() cleans up: once the call has made its
\* temporary file, the file is gone when the call returns or raises.
C9_FileGoneOnEveryExit ==
    \A t \in Threads : (Over(t) /\ MadeFile(t)) => disk[thr[t].tmp] = NoFile

(***************************************************************************)
(* Properties of the command line                                           *)
(***************************************************************************)
\* The arguments after the jar: what follows java -jar <jar>.
Options(t) == SubSeq(thr[t].cmd, 17, Len(thr[t].cmd))

HasFlag(tail, flag) == \E i \in 1..Len(tail) : tail[i] = flag

FlagValue(tail, flag, value) == \E i \in 1..(Len(tail) - 1) : tail[i] = flag /\ tail[i + 1] = value

LocaleSet == obj.locale # None /\ obj.locale # Str("")

AllDefault == ~obj.verbosity /\ ~obj.interval_tagger /\ obj.locale = None /\ obj.pos_tagger = "no"

\* The temporary file, then -l, -t, -o, -c, -e, -dct with their values.
FixedArguments(t) ==
    /\ Len(thr[t].cmd) >= 16
    /\ thr[t].cmd[4] = TmpPath(thr[t].tmp)
    /\ thr[t].cmd[5] = "-l" /\ thr[t].cmd[6] = obj.lang
    /\ thr[t].cmd[7] = "-t" /\ thr[t].cmd[8] = obj.doc_type
    /\ thr[t].cmd[9] = "-o" /\ thr[t].cmd[10] = obj.output_type
    /\ thr[t].cmd[11] = "-c" /\ thr[t].cmd[12] = obj.conf_heideltime
    /\ thr[t].cmd[13] = "-e" /\ thr[t].cmd[14] = obj.encoding
    /\ thr[t].cmd[15] = "-dct"
    /\ Len(thr[t].cmd[16]) = 10 /\ thr[t].cmd[16][5] = "-" /\ thr[t].cmd[16][8] = "-"
    /\ IntOf(thr[t].cmd[16], 1, 5) = obj.start_date.year
    /\ IntOf(thr[t].cmd[16], 6, 8) = obj.start_date.month
    /\ IntOf(thr[t].cmd[16], 9, 11) = obj.start_date.day

\* -v, -it and -locale <value> are there exactly when their option is set.
SwitchArguments(t) ==
    /\ HasFlag(Options(t), "-v") <=> obj.verbosity
    /\ HasFlag(Options(t), "-it") <=> obj.interval_tagger
    /\ HasFlag(Options(t), "-locale") <=> LocaleSet
    /\ LocaleSet => FlagValue(Options(t), "-locale", obj.locale.str)

TailLength(pos) ==
    (IF obj.verbosity THEN 1 ELSE 0) + (IF obj.interval_tagger THEN 1 ELSE 0)
      + (IF LocaleSet THEN 2 ELSE 0) + (IF pos THEN 2 ELSE 0)

Invoked(t) == Over(t) /\ thr[t].cmd # << >>

\* C8 as stated: the temporary file and the six pairs in order, -v, -it and
\* -locale only when set, -pos <value> only when the tagger name is not its
\* default "no"; with the four options at their defaults the command ends
\* with the -dct value.
C8_OptionalFlagsOnlyWhenNonDefault ==
    \A t \in Threads :
        Invoked(t) =>
            /\ FixedArguments(t)
            /\ SwitchArguments(t)
            /\ HasFlag(Options(t), "-pos") <=> (obj.pos_tagger # "no" /\ obj.pos_tagger # "")
            /\ Len(Options(t)) = TailLength(obj.pos_tagger # "no" /\ obj.pos_tagger # "")
            /\ AllDefault => Len(thr[t].cmd) = 16

\* C8, amended: the temporary file and the six pairs in order, -v, -it and
\* -locale only when set, and -pos <value> whenever the tagger name is not
\* empty, its default "no" included; with the four options at their
\* defaults the command ends with -pos no and has none of -v, -it, -locale.
C8_PosAppendedWheneverNonEmpty ==
    \A t \in Threads :
        Invoked(t) =>
            /\ FixedArguments(t)
            /\ SwitchArguments(t)
            /\ HasFlag(Options(t), "-pos") <=> obj.pos_tagger # ""
            /\ obj.pos_tagger # "" => FlagValue(Options(t), "-pos", obj.pos_tagger)
            /\ Len(Options(t)) = TailLength(obj.pos_tagger # "")
            /\ AllDefault => Options(t) = <<"-pos", "no">>

C8_Witness ==
    /\ Invoked(1)
    /\ AllDefault
    /\ Len(thr[1].cmd) = 18
    /\ thr[1].cmd[17] = "-pos" /\ thr[1].cmd[18] = "no"

(***************************************************************************)
(* Properties of calls that overlap                                         *)
(***************************************************************************)
InFlight(t) == thr[t].pc \in {"opened", "written", "finally"}

Exclusive == \A t1, t2 \in Threads : (t1 # t2 /\ InFlight(t1) /\ InFlight(t2)) => thr[t1].tmp # thr[t2].tmp

\* C7 as stated: a call never passes the invocation the path its caller's
\* previous call passed, and calls in flight never share a path.
C7_UniqueAcrossSequentialAndOverlapping ==
    /\ \A t \in Threads :
         (thr[t].cmd # << >> /\ thr[t].prev # NoTmp) => thr[t].cmd[4] # TmpPath(thr[t].prev)
    /\ Exclusive

\* C7, amended: calls in flight never share a path, so each one's file
\* stays as that call left it until the call itself removes it: empty once
\* made, then holding the call's own text, which is what its child reads.
\* (A later call may be given the name of a file an earlier call has
\* already removed.)
C7_InFlightFilesAreExclusive ==
    /\ Exclusive
    /\ \A t \in Threads :
         /\ thr[t].pc = "opened" => disk[thr[t].tmp] = File(<< >>)
         /\ thr[t].pc \in {"written", "finally"} =>
              disk[thr[t].tmp] = File(Encode(thr[t].doc, obj.encoding).bytes)
         /\ ChildRan(t) =>
              /\ thr[t].seen = File(Encode(thr[t].doc, obj.encoding).bytes)
              /\ thr[t].cmd[4] = TmpPath(thr[t].tmp)

C7_Witness ==
    /\ thr[1].pc = "written" /\ thr[2].pc = "finally"
    /\ thr[1].doc # thr[2].doc
    /\ thr[1].tmp # thr[2].tmp
    /\ thr[2].prev # NoTmp

(***************************************************************************)
(* Properties of construction and the setters                               *)
(***************************************************************************)
SameIgnoringCase(x, y) == Len(x) = Len(y) /\ \A i \in 1..Len(x) : LowerChar(x[i]) = LowerChar(y[i])

\* x is, case-insensitively, one of the values of the closed set.
InClosedSet(x, list) == \E i \in 1..Len(list) : SameIgnoringCase(x, list[i])

Rejected == last.exc.type = "ValueError" /\ obj = last.pre

\* C4: set_lang, set_type and out_type raise the validation error and leave
\* the instance as it was for every value that is not, case-insensitively,
\* in their closed set (15 languages, 4 document types, 2 output formats);
\* so the stored language, document type and output format of an instance
\* are always in their closed sets.
C4_ClosedSetsAreEnforced ==
    /\ Cardinality(Members(AVAILABLE_LANGUAGES)) = 15
    /\ Cardinality(Members(AVAILABLE_DOCUMENT_TYPES)) = 4
    /\ Cardinality(Members(AVAILABLE_OUTPUT_TYPES)) = 2
    /\ (last.op = "set_lang" /\ ~InClosedSet(last.arg, AVAILABLE_LANGUAGES)) => Rejected
    /\ (last.op = "set_type" /\ ~InClosedSet(last.arg, AVAILABLE_DOCUMENT_TYPES)) => Rejected
    /\ (last.op = "out_type" /\ ~InClosedSet(last.arg, AVAILABLE_OUTPUT_TYPES)) => Rejected
    /\ obj # NoObj =>
         /\ InClosedSet(obj.lang, AVAILABLE_LANGUAGES)
         /\ InClosedSet(obj.doc_type, AVAILABLE_DOCUMENT_TYPES)
         /\ InClosedSet(obj.output_type, AVAILABLE_OUTPUT_TYPES)

C4_Witness ==
    /\ last.op = "set_lang"
    /\ last.arg = <<"f","r","e","n","s","h">>
    /\ Rejected
    /\ obj.lang = AVAILABLE_LANGUAGES[15]
    /\ obj.doc_type = Upper(AVAILABLE_DOCUMENT_TYPES[3])

ToolPathGiven == last.arg.value["heideltime_path"] # Absent /\ last.arg.value["heideltime_path"] # Val(None)

ConfigurationError ==
    \/ last.exc = Exc("ValueError", <<"Please specify the path to Heideltime.standalone.jar in the configuration">>)
    \/ last.exc.type = "FileNotFoundError"

\* C6: construction from a mapping without the tool path, or with a tool
\* path that is not on disk, fails with the configuration error whatever
\* the other fields hold, and leaves no instance; an instance that exists
\* has a tool path that was on disk.
C6_ToolPathIsRequired ==
    /\ (last.op = "__init__" /\ last.arg.kind = "dict" /\ ~ToolPathGiven) =>
          (ConfigurationError /\ last.exc.type = "ValueError" /\ obj = NoObj)
    /\ (last.op = "__init__" /\ last.arg.kind = "dict" /\ ToolPathGiven
          /\ ~Exists(last.arg.value["heideltime_path"].val)) =>
          (ConfigurationError /\ last.exc.type = "FileNotFoundError" /\ obj = NoObj)
    /\ obj # NoObj => Exists(obj.heidel)

C6_Witness ==
    /\ last.op = "__init__"
    /\ last.arg = [kind |-> "dict", value |-> [EmptyConfig EXCEPT !["heideltime_path"] = Val(Nowhere)]]
    /\ last.exc.type = "FileNotFoundError"
    /\ obj = NoObj

(***************************************************************************)
(* Properties of date parsing                                               *)
(***************************************************************************)
DateGiven(s) == last.arg.value["start_date"] = Val(s)

\* The -dct value parse() would pass for the stored date.
Dct == BuildCmd(obj, TmpPath(1))[16]

Is_2025_03_16 ==
    /\ obj.start_date.year = 2025 /\ obj.start_date.month = 3 /\ obj.start_date.day = 16
    /\ Dct = <<"2","0","2","5","-","0","3","-","1","6">>

\* C5: at construction and in set_time, 2025/03/16 and 25/03/16 are both
\* accepted and both give the date 2025-03-16, the -dct value 2025-03-16;
\* 2025-03-16 is rejected with the validation error, and set_time then
\* leaves the stored date as it was.
C5_BothFormatsGiveTheSameDate ==
    /\ (last.op = "set_time" /\ last.arg \in {D_2025_03_16, D_25_03_16}) =>
          (last.exc = NoExc /\ Is_2025_03_16)
    /\ (last.op = "__init__" /\ (DateGiven(D_2025_03_16) \/ DateGiven(D_25_03_16))) =>
          (last.exc = NoExc /\ Is_2025_03_16)
    /\ (last.op = "set_time" /\ last.arg = D_2025_03_16_dash) =>
          (last.exc.type = "ValueError" /\ obj = last.pre)
    /\ (last.op = "__init__" /\ DateGiven(D_2025_03_16_dash)) =>
          (last.exc.type = "ValueError" /\ obj = NoObj)

C5_Witness ==
    /\ last.op = "set_time"
    /\ last.arg = D_25_03_16
    /\ last.pre.start_date.year # 2025
    /\ Is_2025_03_16

\* __init__ given the string s as its start_date.
InitWith(s) == HeidelTimeInit([kind |-> "dict", value |-> [BaseConfig EXCEPT !["start_date"] = Val(s)]],
                              CHOOSE today \in Todays : TRUE)

\* C10: set_time(s) raises the validation error exactly when construction
\* with the start_date s does, for every string s, the empty one included;
\* and when both accept s they store dates with the same -dct value.
C10_SetTimeAgreesWithInit ==
    last.op = "set_time" =>
        /\ (last.exc.type = "ValueError") <=> (InitWith(last.arg).exc.type = "ValueError")
        /\ (last.exc = NoExc /\ InitWith(last.arg).exc = NoExc) =>
              Strftime(obj.start_date) = Strftime(InitWith(last.arg).obj.start_date)

=============================================================================
